---- MODULE Spec2Model ----
(***************************************************************************)
(* Model of hardhat-core's project creation wizard                         *)
(* (packages/hardhat-core/src/internal/cli/project-creation.ts).           *)
(*                                                                         *)
(* One run of createProject() is a sequential walk through its awaits.     *)
(* The filesystem is a map  directory -> (path -> content); a path is a    *)
(* sequence of components, a directory exists iff it is in DOMAIN fs.      *)
(* Relative paths used by the code resolve against the process's current   *)
(* working directory, Cwd.                                                 *)
(***************************************************************************)
EXTENDS FiniteSets, Integers, Sequences, TLC

\* ------------------------------------------------------------------ bounds
\* exit statuses the installer child may close with: 0..MaxExitStatus
MaxExitStatus == 2
\* number of files a directory holds before the run (besides package.json)
MaxUserFiles == 1

\* --------------------------------------------------------------- constants
CREATE_BASIC_SAMPLE_PROJECT_ACTION == "Create a basic sample project"
CREATE_ADVANCED_SAMPLE_PROJECT_ACTION == "Create an advanced sample project"
CREATE_ADVANCED_TYPESCRIPT_SAMPLE_PROJECT_ACTION == "Create an advanced sample project that uses TypeScript"
CREATE_EMPTY_HARDHAT_CONFIG_ACTION == "Create an empty hardhat.config.js"
QUIT_ACTION == "Quit"

Action ==
  { CREATE_BASIC_SAMPLE_PROJECT_ACTION,
    CREATE_ADVANCED_SAMPLE_PROJECT_ACTION,
    CREATE_ADVANCED_TYPESCRIPT_SAMPLE_PROJECT_ACTION,
    CREATE_EMPTY_HARDHAT_CONFIG_ACTION,
    QUIT_ACTION }

SampleProjectTypeCreationAction ==
  { CREATE_BASIC_SAMPLE_PROJECT_ACTION,
    CREATE_ADVANCED_SAMPLE_PROJECT_ACTION,
    CREATE_ADVANCED_TYPESCRIPT_SAMPLE_PROJECT_ACTION }

HARDHAT_PACKAGE_NAME == "hardhat"

\* Dependency tables keep the insertion order of the object literals: a
\* table is a sequence of <<name, range>> entries.
BASIC_SAMPLE_PROJECT_DEPENDENCIES ==
  << <<"@nomiclabs/hardhat-waffle", "^2.0.0">>,
     <<"ethereum-waffle", "^3.0.0">>,
     <<"chai", "^4.2.0">>,
     <<"@nomiclabs/hardhat-ethers", "^2.0.0">>,
     <<"ethers", "^5.0.0">> >>

ADVANCED_SAMPLE_PROJECT_DEPENDENCIES ==
  BASIC_SAMPLE_PROJECT_DEPENDENCIES \o
  << <<"@nomiclabs/hardhat-etherscan", "^3.0.0">>,
     <<"dotenv", "^16.0.0">>,
     <<"eslint", "^7.29.0">>,
     <<"eslint-config-prettier", "^8.3.0">>,
     <<"eslint-config-standard", "^16.0.3">>,
     <<"eslint-plugin-import", "^2.23.4">>,
     <<"eslint-plugin-node", "^11.1.0">>,
     <<"eslint-plugin-prettier", "^3.4.0">>,
     <<"eslint-plugin-promise", "^5.1.0">>,
     <<"hardhat-gas-reporter", "^1.0.4">>,
     <<"prettier", "^2.3.2">>,
     <<"prettier-plugin-solidity", "^1.0.0-beta.13">>,
     <<"solhint", "^3.3.6">>,
     <<"solidity-coverage", "^0.7.16">> >>

ADVANCED_TYPESCRIPT_SAMPLE_PROJECT_DEPENDENCIES ==
  ADVANCED_SAMPLE_PROJECT_DEPENDENCIES \o
  << <<"@typechain/ethers-v5", "^7.0.1">>,
     <<"@typechain/hardhat", "^2.3.0">>,
     <<"@typescript-eslint/eslint-plugin", "^4.29.1">>,
     <<"@typescript-eslint/parser", "^4.29.1">>,
     <<"@types/chai", "^4.2.21">>,
     <<"@types/node", "^12.0.0">>,
     <<"@types/mocha", "^9.0.0">>,
     <<"ts-node", "^10.1.0">>,
     <<"typechain", "^5.1.2">>,
     <<"typescript", "^4.5.2">> >>

SAMPLE_PROJECT_DEPENDENCIES ==
  [ a \in SampleProjectTypeCreationAction |->
      CASE a = CREATE_BASIC_SAMPLE_PROJECT_ACTION -> BASIC_SAMPLE_PROJECT_DEPENDENCIES
        [] a = CREATE_ADVANCED_SAMPLE_PROJECT_ACTION -> ADVANCED_SAMPLE_PROJECT_DEPENDENCIES
        [] OTHER -> ADVANCED_TYPESCRIPT_SAMPLE_PROJECT_DEPENDENCIES ]

\* The three "use defaults" environment variables of getAction.
BASIC_WITH_DEFAULTS == "HARDHAT_CREATE_BASIC_SAMPLE_PROJECT_WITH_DEFAULTS"
ADVANCED_WITH_DEFAULTS == "HARDHAT_CREATE_ADVANCED_SAMPLE_PROJECT_WITH_DEFAULTS"
ADVANCED_TYPESCRIPT_WITH_DEFAULTS == "HARDHAT_CREATE_ADVANCED_TYPESCRIPT_SAMPLE_PROJECT_WITH_DEFAULTS"
DefaultsEnvVars == { BASIC_WITH_DEFAULTS, ADVANCED_WITH_DEFAULTS, ADVANCED_TYPESCRIPT_WITH_DEFAULTS }

\* ----------------------------------------------------- external collaborators
\* getPackageJson().version: the version of the running framework.
HardhatVersion == "2.9.0"
\* DEFAULT_SOLC_VERSION, interpolated into the empty config.
DEFAULT_SOLC_VERSION == "0.7.3"
\* getRecommendedGitIgnore(): the recommended ignore-file text.
RecommendedGitIgnore == "node_modules\n.env\ncoverage\ncache\nartifacts\n"

\* The process's working directory, an existing other directory, and a path
\* at which nothing exists yet.
Cwd == "/cwd"
OtherDir == "/other"
NewDir == "/new"
Roots == { Cwd, OtherDir, NewDir }

\* The packaged sample-projects/<tier> trees (path -> content).  A file's
\* content is tagged with the tier that ships it.
SampleProjectFiles ==
  [ basic |->
      { <<"README.md">>, <<"LICENSE.md">>, <<"hardhat.config.js">>,
        <<"contracts", "Greeter.sol">>,
        <<"scripts", "sample-script.js">>,
        <<"test", "sample-test.js">> },
    advanced |->
      { <<"README.md">>, <<"hardhat.config.js">>, <<"npmignore">>,
        <<".eslintrc.js">>,
        <<"contracts", "Greeter.sol">>,
        <<"scripts", "deploy.js">>,
        <<"test", "sample-test.js">> },
    advancedTs |->
      { <<"README.md">>, <<"hardhat.config.ts">>, <<"npmignore">>,
        <<".eslintrc.js">>, <<"tsconfig.json">>,
        <<"scripts", "deploy.ts">>,
        <<"test", "index.ts">> } ]

SampleProject(tier) == [ p \in SampleProjectFiles[tier] |-> tier ]

\* ------------------------------------------------------------- filesystem
IsPrefix(p, q) == Len(p) <= Len(q) /\ SubSeq(q, 1, Len(p)) = p

Restrict(g, S) == [ q \in S |-> g[q] ]

\* fsExtra.pathExists(path.join(dir, p))
pathExists(f, dir, p) ==
  /\ dir \in DOMAIN f
  /\ (p = <<>> \/ \E q \in DOMAIN f[dir] : IsPrefix(p, q))

\* fsExtra.readdirSync(dir): the names of the top-level entries of dir.
\* It throws ENOENT when dir does not exist; callers test readdirThrows.
readdirThrows(f, dir) == dir \notin DOMAIN f
readdirSync(f, dir) == { q[1] : q \in DOMAIN f[dir] }

\* fsExtra.ensureDir(dir)
ensureDir(f, dir) == IF dir \in DOMAIN f THEN f ELSE f @@ (dir :> <<>>)

\* fsExtra.copy(src, dir): recursive, overwriting same-named files.
copy(f, src, dir) ==
  [ f EXCEPT ![dir] =
      [ q \in DOMAIN src \cup DOMAIN f[dir] |->
          IF q \in DOMAIN src THEN src[q] ELSE f[dir][q] ] ]

\* fsExtra.remove(path.join(dir, p)): the file or the whole subtree; silent
\* when nothing is there.
remove(f, dir, p) ==
  IF dir \notin DOMAIN f THEN f
  ELSE [ f EXCEPT ![dir] =
           Restrict(f[dir], { q \in DOMAIN f[dir] : ~IsPrefix(p, q) }) ]

\* fsExtra.move(from, to, { overwrite: true }) of a file inside dir; it
\* throws when the source is missing (callers test moveThrows).
moveThrows(f, dir, from) == ~pathExists(f, dir, from)
move(f, dir, from, to) ==
  [ f EXCEPT ![dir] =
      [ q \in (DOMAIN f[dir] \ {from}) \cup {to} |->
          IF q = to THEN f[dir][from] ELSE f[dir][q] ] ]

\* fsExtra.writeFile / writeJson(path.join(dir, p), content)
writeFile(f, dir, p, content) ==
  [ f EXCEPT ![dir] =
      [ q \in DOMAIN f[dir] \cup {p} |->
          IF q = p THEN content ELSE f[dir][q] ] ]

PackageJsonPath == <<"package.json">>

\* ------------------------------------------------------------ pure helpers
RECURSIVE Join(_, _)
\* Array.prototype.join
Join(s, sep) ==
  IF s = <<>> THEN ""
  ELSE IF Len(s) = 1 THEN s[1]
  ELSE s[1] \o sep \o Join(Tail(s), sep)

\* Object.keys of a dependency table
Keys(deps) == [ i \in 1..Len(deps) |-> deps[i][1] ]

\* A field of the parsed package.json; an absent field spreads to nothing.
ManifestField(packageJson, field) ==
  IF field \in DOMAIN packageJson THEN packageJson[field] ELSE {}

\* Variant that looks only at the dependencies field of package.json.
isInstalled_OnlyDependencies(f, dep) ==
  dep \in ManifestField(f[Cwd][PackageJsonPath], "dependencies")

isInstalled(f, dep) ==
  LET packageJson == f[Cwd][PackageJsonPath]
      allDependencies ==
        ManifestField(packageJson, "dependencies") \cup
        ManifestField(packageJson, "devDependencies") \cup
        ManifestField(packageJson, "optionalDependencies")
  IN  dep \in allDependencies

isYarnProject(f) == pathExists(f, Cwd, <<"yarn.lock">>)

getRecommendedDependenciesInstallationCommand(f, dependencies, quoteDependencies) ==
  LET deps == [ i \in 1..Len(dependencies) |->
                  IF quoteDependencies
                  THEN "\"" \o dependencies[i][1] \o "@" \o dependencies[i][2] \o "\""
                  ELSE dependencies[i][1] \o "@" \o dependencies[i][2] ]
  IN  IF isYarnProject(f)
      THEN <<"yarn", "add", "--dev">> \o deps
      ELSE <<"npm", "install", "--save-dev">> \o deps

\* Variant that returns the tier's table without the framework entry.
getDependencies_NoFramework(projectType) ==
  SAMPLE_PROJECT_DEPENDENCIES[projectType]

getDependencies(projectType) ==
  << <<HARDHAT_PACKAGE_NAME, "^" \o HardhatVersion>> >> \o
  SAMPLE_PROJECT_DEPENDENCIES[projectType]

canInstallRecommendedDeps(f, os) ==
  pathExists(f, Cwd, PackageJsonPath) /\ os # "Windows_NT"

\* Variant that forgets the filter and installs every required package.
dependenciesToInstall_NoFilter(f, dependencies) == dependencies

\* Object.entries(dependencies).filter(([name]) => !isInstalled(name))
dependenciesToInstall(f, dependencies) ==
  SelectSeq(dependencies, LAMBDA e : ~isInstalled(f, e[1]))

\* recommendedDeps.filter(isInstalled)
installedRecommendedDeps(f, recommendedDeps) ==
  SelectSeq(recommendedDeps, LAMBDA name : isInstalled(f, name))

\* Variant with the comparison inverted: keeps only the framework package.
installedExceptHardhat_Inverted(installedDeps) ==
  SelectSeq(installedDeps, LAMBDA name : name = HARDHAT_PACKAGE_NAME)

\* installedRecommendedDeps.filter((name) => name !== HARDHAT_PACKAGE_NAME)
installedExceptHardhat(installedDeps) ==
  SelectSeq(installedDeps, LAMBDA name : name # HARDHAT_PACKAGE_NAME)

\* The srcFiles of checkForDuplicates: the union of the top-level entries
\* of the sample projects the project type copies.
srcFiles(projectType) ==
  LET basic == readdirSync([src |-> SampleProject("basic")], "src")
      advanced == readdirSync([src |-> SampleProject("advanced")], "src")
      advancedTs == readdirSync([src |-> SampleProject("advancedTs")], "src")
  IN  CASE projectType = CREATE_ADVANCED_SAMPLE_PROJECT_ACTION ->
             basic \cup advanced
        [] projectType = CREATE_ADVANCED_TYPESCRIPT_SAMPLE_PROJECT_ACTION ->
             basic \cup advanced \cup advancedTs
        [] OTHER -> basic

\* intersection(srcFiles, destFiles)
duplicates(f, projectRoot_, projectType) ==
  srcFiles(projectType) \cap readdirSync(f, projectRoot_)

\* ------------------------------------------------------------ console text
MsgConfigCreated == "Config file created"
MsgNeedHardhat == "You need to install hardhat locally to use it. Please run:"
MsgNeedDeps == "You need to install these dependencies to run the sample project:"
MsgInstallFailed == "Failed to install the sample project's dependencies"
MsgProjectCreated == "Project created"
MsgSeeReadme == "See the README.md file for some example tasks you can run."

EmptyHardhatConfig ==
  "/**\n * @type import('hardhat/config').HardhatUserConfig\n */\nmodule.exports = {\n  solidity: \""
    \o DEFAULT_SOLC_VERSION \o "\",\n};\n"

\* ------------------------------------------------------------------- state
VARIABLES
  pc,            \* position of createProject
  env,           \* the "with defaults" environment variables that are set
  osType,        \* os.type()
  fs,            \* the filesystem
  fs0,           \* the filesystem when the run started
  fsBeforeCopy,  \* the filesystem when copySampleProject was entered
  consent,       \* hasConsentedTelemetry(): "undefined", "true" or "false"
  action,        \* const action = await getAction()
  projectRoot,   \* responses.projectRoot
  shouldAddGitIgnore,
  shouldShowInstallationInstructions,
  toInstall,     \* the dependenciesToInstall of createProject
  shouldInstall, \* const shouldInstall of createProject
  prompts,       \* interactive prompts shown, in order
  responses,     \* what each prompt answered or threw, in order
  console,       \* lines printed, in order
  spawned,       \* child processes spawned, in order
  child,         \* the last event of the installer child process
  fsOps,         \* filesystem calls made, in order
  outcome,       \* "running", "returned" or "threw"
  thrown         \* what createProject threw

vars ==
  << pc, env, osType, fs, fs0, fsBeforeCopy, consent, action, projectRoot,
     shouldAddGitIgnore, shouldShowInstallationInstructions, toInstall,
     shouldInstall, prompts, responses, console, spawned, child, fsOps,
     outcome, thrown >>

Op(op, dir, path) == [ op |-> op, dir |-> dir, path |-> path ]

useDefaultPromptResponses == env # {}

\* ----------------------------------------------------------- initial state
\* Files a directory may hold before the run.
UserFiles ==
  (<<"hardhat.config.js">> :> "user's config") @@
  (<<"yarn.lock">> :> "user's lockfile") @@
  (<<".gitignore">> :> "dist\n") @@
  (<<"tsconfig.json">> :> "user's tsconfig") @@
  (<<"cache", "solidity-files-cache.json">> :> "user's cache")

UserDirs ==
  { Restrict(UserFiles, S) :
      S \in { S \in SUBSET DOMAIN UserFiles : Cardinality(S) <= MaxUserFiles } }

Names(deps) == { deps[i][1] : i \in 1..Len(deps) }

\* package.json files the working directory may hold before the run.
UserManifests ==
  { [ name |-> "app", devDependencies |-> {HARDHAT_PACKAGE_NAME} ],
    [ name |-> "app", dependencies |-> {HARDHAT_PACKAGE_NAME},
      devDependencies |-> {"chai"} ],
    [ name |-> "app", optionalDependencies |-> {"ethers"} ],
    [ name |-> "app",
      devDependencies |-> Names(getDependencies(CREATE_BASIC_SAMPLE_PROJECT_ACTION)) ],
    [ name |-> "app",
      dependencies |-> {HARDHAT_PACKAGE_NAME},
      devDependencies |-> Names(ADVANCED_TYPESCRIPT_SAMPLE_PROJECT_DEPENDENCIES) ] }

CwdDirs ==
  UserDirs \cup
  { d @@ (PackageJsonPath :> m) : d \in UserDirs, m \in UserManifests }

Init ==
  /\ pc = "getAction"
  /\ env \in SUBSET DefaultsEnvVars
  /\ osType \in { "Linux", "Windows_NT" }
  /\ \E c \in CwdDirs, o \in UserDirs : fs = (Cwd :> c) @@ (OtherDir :> o)
  /\ fs0 = fs
  /\ fsBeforeCopy = fs
  /\ consent \in { "undefined", "true" }
  /\ action = "none"
  /\ projectRoot = "none"
  /\ shouldAddGitIgnore = FALSE
  /\ shouldShowInstallationInstructions = TRUE
  /\ toInstall = <<>>
  /\ shouldInstall = FALSE
  /\ prompts = <<>>
  /\ responses = <<>>
  /\ console = <<>>
  /\ spawned = <<>>
  /\ child = [ event |-> "none", status |-> 0 ]
  /\ fsOps = <<>>
  /\ outcome = "running"
  /\ thrown = "none"

\* ------------------------------------------------------------------ getAction
\* What enquirer.prompt can do: answer with a value, or throw.
ActionPromptResponses ==
  [ kind : {"answer"}, value : Action \cup {"something else"} ] \cup
  [ kind : {"throw"}, value : {"", "Error"} ]

\* getAction when a "with defaults" variable is set
GetActionFromEnv ==
  /\ pc = "getAction"
  /\ env # {}
  /\ action' =
       IF BASIC_WITH_DEFAULTS \in env THEN CREATE_BASIC_SAMPLE_PROJECT_ACTION
       ELSE IF ADVANCED_WITH_DEFAULTS \in env THEN CREATE_ADVANCED_SAMPLE_PROJECT_ACTION
       ELSE CREATE_ADVANCED_TYPESCRIPT_SAMPLE_PROJECT_ACTION
  /\ pc' = "ensurePackageJson"
  /\ UNCHANGED << env, osType, fs, fs0, fsBeforeCopy, consent, projectRoot,
                  shouldAddGitIgnore, shouldShowInstallationInstructions,
                  toInstall, shouldInstall, prompts, responses, console, spawned, child, fsOps, outcome, thrown >>

\* Variant whose catch treats every exception of the prompt as a cancellation.
GetActionFromPrompt_CatchAll ==
  /\ pc = "getAction"
  /\ env = {}
  /\ prompts' = Append(prompts, "action")
  /\ \E r \in ActionPromptResponses :
       LET quits == r.kind = "throw" \/ r.value = QUIT_ACTION
           fails == r.kind = "answer" /\ r.value \notin Action
       IN  /\ responses' = Append(responses, [ kind |-> r.kind, value |-> r.value ])
           /\ action' = IF quits THEN QUIT_ACTION ELSE IF fails THEN "none" ELSE r.value
           /\ thrown' = IF fails THEN "UnsupportedOperation" ELSE "none"
           /\ outcome' = IF fails THEN "threw" ELSE IF quits THEN "returned" ELSE "running"
           /\ pc' = IF outcome' = "running" THEN "ensurePackageJson" ELSE "done"
  /\ UNCHANGED << env, osType, fs, fs0, fsBeforeCopy, consent, projectRoot,
                  shouldAddGitIgnore, shouldShowInstallationInstructions,
                  toInstall, shouldInstall, console, spawned, child, fsOps >>

\* getAction when it has to ask, and createProject's test for QUIT_ACTION
GetActionFromPrompt ==
  /\ pc = "getAction"
  /\ env = {}
  /\ prompts' = Append(prompts, "action")
  /\ \E r \in ActionPromptResponses :
       LET result ==
             IF r.kind = "answer"
             THEN IF r.value \in Action
                  THEN [ action |-> r.value, thrown |-> "none" ]
                  ELSE [ action |-> "none", thrown |-> "UnsupportedOperation" ]
             ELSE IF r.value = ""
                  THEN [ action |-> QUIT_ACTION, thrown |-> "none" ]
                  ELSE [ action |-> "none", thrown |-> r.value ]
       IN  /\ responses' = Append(responses, [ kind |-> r.kind, value |-> r.value ])
           /\ action' = result.action
           /\ thrown' = result.thrown
           /\ outcome' = IF result.thrown # "none" THEN "threw"
                         ELSE IF result.action = QUIT_ACTION THEN "returned"
                         ELSE "running"
           /\ pc' = IF outcome' = "running" THEN "ensurePackageJson" ELSE "done"
  /\ UNCHANGED << env, osType, fs, fs0, fsBeforeCopy, consent, projectRoot,
                  shouldAddGitIgnore, shouldShowInstallationInstructions,
                  toInstall, shouldInstall, console, spawned, child, fsOps >>

\* ------------------------------------------------------------ createProject
\* if (!(await fsExtra.pathExists("package.json"))) await createPackageJson()
EnsurePackageJson ==
  /\ pc = "ensurePackageJson"
  /\ IF pathExists(fs, Cwd, PackageJsonPath)
     THEN /\ fs' = fs
          /\ fsOps' = Append(fsOps, Op("pathExists", Cwd, PackageJsonPath))
     ELSE /\ fs' = writeFile(fs, Cwd, PackageJsonPath, [ name |-> "hardhat-project" ])
          /\ fsOps' = fsOps \o << Op("pathExists", Cwd, PackageJsonPath),
                                  Op("writeJson", Cwd, PackageJsonPath) >>
  /\ pc' = IF action = CREATE_EMPTY_HARDHAT_CONFIG_ACTION
           THEN "emptyConfig" ELSE "confirmProject"
  /\ UNCHANGED << env, osType, fs0, fsBeforeCopy, consent, action, projectRoot,
                  shouldAddGitIgnore, shouldShowInstallationInstructions,
                  toInstall, shouldInstall, prompts, responses, console, spawned, child, outcome, thrown >>

\* the CREATE_EMPTY_HARDHAT_CONFIG_ACTION branch
WriteEmptyHardhatConfig ==
  /\ pc = "emptyConfig"
  /\ fs' = writeFile(fs, Cwd, <<"hardhat.config.js">>, EmptyHardhatConfig)
  /\ IF ~isInstalled(fs', HARDHAT_PACKAGE_NAME)
     THEN /\ console' = console \o
               << MsgConfigCreated, "", MsgNeedHardhat, "",
                  Join(getRecommendedDependenciesInstallationCommand(
                         fs', << <<HARDHAT_PACKAGE_NAME, "^" \o HardhatVersion>> >>, TRUE), " "),
                  "" >>
          /\ fsOps' = fsOps \o << Op("writeFile", Cwd, <<"hardhat.config.js">>),
                                  Op("readJSON", Cwd, PackageJsonPath),
                                  Op("pathExists", Cwd, <<"yarn.lock">>) >>
     ELSE /\ console' = Append(console, MsgConfigCreated)
          /\ fsOps' = fsOps \o << Op("writeFile", Cwd, <<"hardhat.config.js">>),
                                  Op("readJSON", Cwd, PackageJsonPath) >>
  /\ outcome' = "returned"
  /\ pc' = "done"
  /\ UNCHANGED << env, osType, fs0, fsBeforeCopy, consent, action, projectRoot,
                  shouldAddGitIgnore, shouldShowInstallationInstructions,
                  toInstall, shouldInstall, prompts, responses, spawned, child, thrown >>

\* responses = { projectRoot: process.cwd(), shouldAddGitIgnore: true }
UseDefaultResponses ==
  /\ pc = "confirmProject"
  /\ useDefaultPromptResponses
  /\ projectRoot' = Cwd
  /\ shouldAddGitIgnore' = TRUE
  /\ pc' = "checkForDuplicates"
  /\ UNCHANGED << env, osType, fs, fs0, fsBeforeCopy, consent, action,
                  shouldShowInstallationInstructions, toInstall, shouldInstall, prompts, responses,
                  console, spawned, child, fsOps, outcome, thrown >>

ProjectCreationResponses ==
  [ kind : {"answer"}, projectRoot : Roots, shouldAddGitIgnore : BOOLEAN ] \cup
  [ kind : {"throw"}, projectRoot : {""}, shouldAddGitIgnore : {FALSE} ] \cup
  [ kind : {"throw"}, projectRoot : {"Error"}, shouldAddGitIgnore : {FALSE} ]

\* responses = await confirmProjectCreation(), with its catch
ConfirmProjectCreation ==
  /\ pc = "confirmProject"
  /\ ~useDefaultPromptResponses
  /\ prompts' = Append(prompts, "projectCreation")
  /\ \E r \in ProjectCreationResponses :
       /\ responses' = Append(responses, [ kind |-> r.kind, value |-> r.projectRoot ])
       /\ IF r.kind = "answer"
          THEN /\ projectRoot' = r.projectRoot
               /\ shouldAddGitIgnore' = r.shouldAddGitIgnore
               /\ pc' = "checkForDuplicates"
               /\ UNCHANGED << outcome, thrown >>
          ELSE /\ outcome' = IF r.projectRoot = "" THEN "returned" ELSE "threw"
               /\ thrown' = IF r.projectRoot = "" THEN "none" ELSE r.projectRoot
               /\ pc' = "done"
               /\ UNCHANGED << projectRoot, shouldAddGitIgnore >>
  /\ UNCHANGED << env, osType, fs, fs0, fsBeforeCopy, consent, action,
                  shouldShowInstallationInstructions, toInstall, shouldInstall, console,
                  spawned, child, fsOps >>

\* Variant that creates the destination directory before listing it.
CheckForDuplicates_EnsureDirFirst ==
  /\ pc = "checkForDuplicates"
  /\ fsBeforeCopy' = fs
  /\ fs' = ensureDir(fs, projectRoot)
  /\ fsOps' = fsOps \o << Op("ensureDir", projectRoot, <<>>),
                          Op("readdir", projectRoot, <<>>) >>
  /\ IF duplicates(fs', projectRoot, action) # {}
     THEN /\ outcome' = "threw"
          /\ thrown' = "ConflictingFiles"
          /\ pc' = "done"
     ELSE /\ pc' = "copyBasic"
          /\ UNCHANGED << outcome, thrown >>
  /\ UNCHANGED << env, osType, fs0, consent, action, projectRoot,
                  shouldAddGitIgnore, shouldShowInstallationInstructions,
                  toInstall, shouldInstall, prompts, responses, console, spawned, child >>

\* -------------------------------------------------------- copySampleProject
\* await checkForDuplicates(projectRoot, projectType)
CheckForDuplicates ==
  /\ pc = "checkForDuplicates"
  /\ fsBeforeCopy' = fs
  /\ fsOps' = Append(fsOps, Op("readdir", projectRoot, <<>>))
  /\ IF readdirThrows(fs, projectRoot)
     THEN /\ outcome' = "threw"
          /\ thrown' = "ENOENT"
          /\ pc' = "done"
     ELSE IF duplicates(fs, projectRoot, action) # {}
     THEN /\ outcome' = "threw"
          /\ thrown' = "ConflictingFiles"
          /\ pc' = "done"
     ELSE /\ pc' = "copyBasic"
          /\ UNCHANGED << outcome, thrown >>
  /\ UNCHANGED << env, osType, fs, fs0, consent, action, projectRoot,
                  shouldAddGitIgnore, shouldShowInstallationInstructions,
                  toInstall, shouldInstall, prompts, responses, console, spawned, child >>

\* ensureDir(projectRoot) and the copy of sample-projects/basic
CopyBasic ==
  /\ pc = "copyBasic"
  /\ fs' = copy(ensureDir(fs, projectRoot), SampleProject("basic"), projectRoot)
  /\ fsOps' = fsOps \o << Op("ensureDir", projectRoot, <<>>),
                          Op("copy basic", projectRoot, <<>>) >>
  /\ pc' = IF action \in { CREATE_ADVANCED_SAMPLE_PROJECT_ACTION,
                           CREATE_ADVANCED_TYPESCRIPT_SAMPLE_PROJECT_ACTION }
           THEN "copyAdvanced" ELSE "removeTemp"
  /\ UNCHANGED << env, osType, fs0, fsBeforeCopy, consent, action, projectRoot,
                  shouldAddGitIgnore, shouldShowInstallationInstructions,
                  toInstall, shouldInstall, prompts, responses, console, spawned, child, outcome, thrown >>

\* the overlay of sample-projects/advanced and its cleanup
CopyAdvanced ==
  /\ pc = "copyAdvanced"
  /\ LET copied == copy(fs, SampleProject("advanced"), projectRoot)
         removed == remove(copied, projectRoot, <<"scripts", "sample-script.js">>)
     IN  IF moveThrows(removed, projectRoot, <<"npmignore">>)
         THEN /\ fs' = removed
              /\ outcome' = "threw"
              /\ thrown' = "ENOENT"
              /\ pc' = "done"
         ELSE /\ fs' = move(removed, projectRoot, <<"npmignore">>, <<".npmignore">>)
              /\ pc' = IF action = CREATE_ADVANCED_TYPESCRIPT_SAMPLE_PROJECT_ACTION
                       THEN "copyAdvancedTs" ELSE "removeTemp"
              /\ UNCHANGED << outcome, thrown >>
  /\ fsOps' = fsOps \o << Op("copy advanced", projectRoot, <<>>),
                          Op("remove", projectRoot, <<"scripts", "sample-script.js">>),
                          Op("move", projectRoot, <<"npmignore">>) >>
  /\ UNCHANGED << env, osType, fs0, fsBeforeCopy, consent, action, projectRoot,
                  shouldAddGitIgnore, shouldShowInstallationInstructions,
                  toInstall, shouldInstall, prompts, responses, console, spawned, child >>

\* The directory the jsFile paths of the advanced-ts cleanup resolve against:
\* fsExtra.remove(jsFile) is given the bare relative path.
JsFileDir(projectRoot_) == Cwd

\* the overlay of sample-projects/advanced-ts and its cleanup
CopyAdvancedTs ==
  /\ pc = "copyAdvancedTs"
  /\ LET copied == copy(fs, SampleProject("advancedTs"), projectRoot)
         dir == JsFileDir(projectRoot)
         removed ==
           remove(remove(remove(copied, dir, <<"hardhat.config.js">>),
                         dir, <<"scripts", "deploy.js">>),
                  dir, <<"test", "sample-test.js">>)
     IN  /\ IF moveThrows(removed, projectRoot, <<"npmignore">>)
            THEN /\ fs' = removed
                 /\ outcome' = "threw"
                 /\ thrown' = "ENOENT"
                 /\ pc' = "done"
            ELSE /\ fs' = move(removed, projectRoot, <<"npmignore">>, <<".npmignore">>)
                 /\ pc' = "removeTemp"
                 /\ UNCHANGED << outcome, thrown >>
         /\ fsOps' = fsOps \o << Op("copy advanced-ts", projectRoot, <<>>),
                                 Op("remove", dir, <<"hardhat.config.js">>),
                                 Op("remove", dir, <<"scripts", "deploy.js">>),
                                 Op("remove", dir, <<"test", "sample-test.js">>),
                                 Op("move", projectRoot, <<"npmignore">>) >>
  /\ UNCHANGED << env, osType, fs0, fsBeforeCopy, consent, action, projectRoot,
                  shouldAddGitIgnore, shouldShowInstallationInstructions,
                  toInstall, shouldInstall, prompts, responses, console, spawned, child >>

\* removeProjectDirIfPresent(projectRoot, dirName)
removeProjectDirIfPresent(f, projectRoot_, dirName) ==
  IF pathExists(f, projectRoot_, <<dirName>>)
  THEN remove(f, projectRoot_, <<dirName>>)
  ELSE f

\* removeTempFilesIfPresent(projectRoot)
removeTempFilesIfPresent(f, projectRoot_) ==
  removeProjectDirIfPresent(
    removeProjectDirIfPresent(f, projectRoot_, "cache"), projectRoot_, "artifacts")

\* the end of copySampleProject, and createProject's test of shouldAddGitIgnore
RemoveTempFiles ==
  /\ pc = "removeTemp"
  /\ fs' = remove(removeTempFilesIfPresent(fs, projectRoot), projectRoot, <<"LICENSE.md">>)
  /\ fsOps' = fsOps \o
       << Op("pathExists", projectRoot, <<"cache">>) >> \o
       (IF pathExists(fs, projectRoot, <<"cache">>)
        THEN << Op("remove", projectRoot, <<"cache">>) >> ELSE <<>>) \o
       << Op("pathExists", projectRoot, <<"artifacts">>) >> \o
       (IF pathExists(fs, projectRoot, <<"artifacts">>)
        THEN << Op("remove", projectRoot, <<"artifacts">>) >> ELSE <<>>) \o
       << Op("remove", projectRoot, <<"LICENSE.md">>) >>
  /\ pc' = IF shouldAddGitIgnore THEN "addGitIgnore" ELSE "telemetry"
  /\ UNCHANGED << env, osType, fs0, fsBeforeCopy, consent, action, projectRoot,
                  shouldAddGitIgnore, shouldShowInstallationInstructions,
                  toInstall, shouldInstall, prompts, responses, console, spawned, child, outcome, thrown >>

\* Variant that writes the recommended content over whatever was there.
AddGitIgnore_Overwrite ==
  /\ pc = "addGitIgnore"
  /\ LET gitIgnorePath == <<".gitignore">>
     IN  /\ fs' = writeFile(fs, projectRoot, gitIgnorePath, RecommendedGitIgnore)
         /\ fsOps' = fsOps \o << Op("pathExists", projectRoot, gitIgnorePath),
                                 Op("writeFile", projectRoot, gitIgnorePath) >>
  /\ pc' = "telemetry"
  /\ UNCHANGED << env, osType, fs0, fsBeforeCopy, consent, action, projectRoot,
                  shouldAddGitIgnore, shouldShowInstallationInstructions,
                  toInstall, shouldInstall, prompts, responses, console, spawned, child, outcome, thrown >>

\* addGitIgnore(projectRoot)
AddGitIgnore ==
  /\ pc = "addGitIgnore"
  /\ LET gitIgnorePath == <<".gitignore">>
         content ==
           IF pathExists(fs, projectRoot, gitIgnorePath)
           THEN fs[projectRoot][gitIgnorePath] \o "\n" \o RecommendedGitIgnore
           ELSE RecommendedGitIgnore
     IN  /\ fs' = writeFile(fs, projectRoot, gitIgnorePath, content)
         /\ fsOps' = fsOps \o << Op("pathExists", projectRoot, gitIgnorePath),
                                 Op("writeFile", projectRoot, gitIgnorePath) >>
  /\ pc' = "telemetry"
  /\ UNCHANGED << env, osType, fs0, fsBeforeCopy, consent, action, projectRoot,
                  shouldAddGitIgnore, shouldShowInstallationInstructions,
                  toInstall, shouldInstall, prompts, responses, console, spawned, child, outcome, thrown >>

\* if (hasConsentedTelemetry() === undefined) { confirmTelemetryConsent ... }
TelemetryConsent ==
  /\ pc = "telemetry"
  /\ IF consent = "undefined"
     THEN /\ prompts' = Append(prompts, "telemetryConsent")
          /\ consent' \in { "undefined", "true", "false" }
          /\ responses' = Append(responses, [ kind |-> "answer", value |-> consent' ])
     ELSE UNCHANGED << prompts, responses, consent >>
  /\ pc' = "reconcile"
  /\ UNCHANGED << env, osType, fs, fs0, fsBeforeCopy, action, projectRoot,
                  shouldAddGitIgnore, shouldShowInstallationInstructions,
                  toInstall, shouldInstall, console, spawned, child, fsOps, outcome, thrown >>

\* ------------------------------------------------ dependency reconciliation
\* if (await canInstallRecommendedDeps()) { ... } up to the choice of branch
Reconcile ==
  /\ pc = "reconcile"
  /\ IF canInstallRecommendedDeps(fs, osType)
     THEN LET dependencies == getDependencies(action)
              recommendedDeps == Keys(dependencies)
              installedDeps == installedRecommendedDeps(fs, recommendedDeps)
          IN  /\ toInstall' = dependenciesToInstall(fs, dependencies)
              /\ fsOps' = fsOps \o << Op("pathExists", Cwd, PackageJsonPath),
                                      Op("readJSON", Cwd, PackageJsonPath) >>
              /\ IF Len(installedDeps) = Len(recommendedDeps)
                 THEN /\ shouldShowInstallationInstructions' = FALSE
                      /\ shouldInstall' = shouldInstall
                      /\ pc' = "finish"
                 ELSE IF Len(installedExceptHardhat(installedDeps)) = 0
                 THEN /\ shouldShowInstallationInstructions' = TRUE
                      /\ shouldInstall' = useDefaultPromptResponses
                      /\ pc' = IF useDefaultPromptResponses
                               THEN "install" ELSE "confirmInstall"
                 ELSE /\ shouldShowInstallationInstructions' = TRUE
                      /\ shouldInstall' = shouldInstall
                      /\ pc' = "finish"
     ELSE /\ toInstall' = toInstall
          /\ shouldInstall' = shouldInstall
          /\ fsOps' = Append(fsOps, Op("pathExists", Cwd, PackageJsonPath))
          /\ shouldShowInstallationInstructions' = TRUE
          /\ pc' = "finish"
  /\ UNCHANGED << env, osType, fs, fs0, fsBeforeCopy, consent, action,
                  projectRoot, shouldAddGitIgnore, prompts, responses, console, spawned, child,
                  outcome, thrown >>

\* await confirmRecommendedDepsInstallation(dependenciesToInstall)
ConfirmRecommendedDepsInstallation ==
  /\ pc = "confirmInstall"
  /\ prompts' = Append(prompts, "recommendedDepsInstallation")
  /\ shouldInstall' \in BOOLEAN
  /\ responses' = Append(responses,
       [ kind |-> "answer", value |-> IF shouldInstall' THEN "true" ELSE "false" ])
  /\ pc' = IF shouldInstall' THEN "install" ELSE "finish"
  /\ UNCHANGED << env, osType, fs, fs0, fsBeforeCopy, consent, action,
                  projectRoot, shouldAddGitIgnore,
                  shouldShowInstallationInstructions, toInstall, console,
                  spawned, child, fsOps, outcome, thrown >>

\* installRecommendedDependencies up to the spawn in installDependencies
InstallRecommendedDependencies ==
  /\ pc = "install"
  /\ LET installCmd ==
           getRecommendedDependenciesInstallationCommand(fs, toInstall, FALSE)
     IN  /\ console' = console \o
               << "", installCmd[1] \o " " \o Join(Tail(installCmd), " ") >>
         /\ spawned' = Append(spawned,
               [ packageManager |-> installCmd[1], args |-> Tail(installCmd) ])
         /\ child' = [ event |-> "spawned", status |-> 0 ]
  /\ fsOps' = Append(fsOps, Op("pathExists", Cwd, <<"yarn.lock">>))
  /\ pc' = "waitChild"
  /\ UNCHANGED << env, osType, fs, fs0, fsBeforeCopy, consent, action,
                  projectRoot, shouldAddGitIgnore,
                  shouldShowInstallationInstructions, toInstall, shouldInstall, prompts, responses,
                  outcome, thrown >>

\* What the promise of installDependencies settles to on "close":
\* resolve(true) for status 0, reject(false) otherwise.
CloseSettlement(status) ==
  IF status = 0
  THEN [ settled |-> "resolved", value |-> TRUE ]
  ELSE [ settled |-> "rejected", value |-> FALSE ]

\* What it settles to on "error": reject(false).
ErrorSettlement == [ settled |-> "rejected", value |-> FALSE ]

\* createProject after `await installRecommendedDependencies(...)` settled:
\* a rejection is thrown out of createProject, a value goes through the
\* `if (!installed)` warning.
AfterInstall(settlement) ==
  IF settlement.settled = "rejected"
  THEN /\ outcome' = "threw"
       /\ thrown' = ToString(settlement.value)
       /\ pc' = "done"
       /\ UNCHANGED << console, shouldShowInstallationInstructions >>
  ELSE /\ console' = IF ~settlement.value
                     THEN Append(console, MsgInstallFailed) ELSE console
       /\ shouldShowInstallationInstructions' = ~settlement.value
       /\ pc' = "finish"
       /\ UNCHANGED << outcome, thrown >>

\* childProcess.once("close", (status) => ...)
ChildClose ==
  /\ pc = "waitChild"
  /\ \E status \in 0..MaxExitStatus :
       /\ child' = [ event |-> "close", status |-> status ]
       /\ AfterInstall(CloseSettlement(status))
  /\ UNCHANGED << env, osType, fs, fs0, fsBeforeCopy, consent, action,
                  projectRoot, shouldAddGitIgnore, toInstall, shouldInstall, prompts, responses,
                  spawned, fsOps >>

\* childProcess.once("error", (_status) => ...)
ChildError ==
  /\ pc = "waitChild"
  /\ child' = [ event |-> "error", status |-> 0 ]
  /\ AfterInstall(ErrorSettlement)
  /\ UNCHANGED << env, osType, fs, fs0, fsBeforeCopy, consent, action,
                  projectRoot, shouldAddGitIgnore, toInstall, shouldInstall, prompts, responses,
                  spawned, fsOps >>

\* Variant that lists only the packages the manifest lacks.
printRecommendedDepsInstallationInstructions_OnlyMissing(f, projectType) ==
  << MsgNeedDeps,
     "  " \o Join(getRecommendedDependenciesInstallationCommand(
                    f, dependenciesToInstall(f, getDependencies(projectType)), TRUE), " ") >>

\* printRecommendedDepsInstallationInstructions(projectType)
printRecommendedDepsInstallationInstructions(f, projectType) ==
  << MsgNeedDeps,
     "  " \o Join(getRecommendedDependenciesInstallationCommand(
                    f, getDependencies(projectType), TRUE), " ") >>

\* the tail of createProject
Finish ==
  /\ pc = "finish"
  /\ IF shouldShowInstallationInstructions
     THEN /\ console' = console \o <<"">> \o
               printRecommendedDepsInstallationInstructions(fs, action) \o
               << MsgProjectCreated, MsgSeeReadme >>
          /\ fsOps' = Append(fsOps, Op("pathExists", Cwd, <<"yarn.lock">>))
     ELSE /\ console' = console \o << MsgProjectCreated, MsgSeeReadme >>
          /\ fsOps' = fsOps
  /\ outcome' = "returned"
  /\ pc' = "done"
  /\ UNCHANGED << env, osType, fs, fs0, fsBeforeCopy, consent, action,
                  projectRoot, shouldAddGitIgnore,
                  shouldShowInstallationInstructions, toInstall, shouldInstall, prompts, responses,
                  spawned, child, thrown >>

\* ------------------------------------------------------------ specification
Next ==
  \/ GetActionFromEnv
  \/ GetActionFromPrompt
  \/ EnsurePackageJson
  \/ WriteEmptyHardhatConfig
  \/ UseDefaultResponses
  \/ ConfirmProjectCreation
  \/ CheckForDuplicates
  \/ CopyBasic
  \/ CopyAdvanced
  \/ CopyAdvancedTs
  \/ RemoveTempFiles
  \/ AddGitIgnore
  \/ TelemetryConsent
  \/ Reconcile
  \/ ConfirmRecommendedDepsInstallation
  \/ InstallRecommendedDependencies
  \/ ChildClose
  \/ ChildError
  \/ Finish

Spec == Init /\ [][Next]_vars

\* ================================================================== claims
TierAction == action \in SampleProjectTypeCreationAction

Printed(line) == \E i \in DOMAIN console : console[i] = line

Prompted(name) == \E i \in DOMAIN prompts : prompts[i] = name

\* copySampleProject ran to its end
Composed ==
  /\ TierAction
  /\ \E i \in DOMAIN fsOps : fsOps[i] = Op("remove", projectRoot, <<"LICENSE.md">>)

\* The names package.json in the working directory declares.
Declared ==
  IF pathExists(fs, Cwd, PackageJsonPath)
  THEN LET m == fs[Cwd][PackageJsonPath]
       IN  (IF "dependencies" \in DOMAIN m THEN m.dependencies ELSE {}) \cup
           (IF "devDependencies" \in DOMAIN m THEN m.devDependencies ELSE {}) \cup
           (IF "optionalDependencies" \in DOMAIN m THEN m.optionalDependencies ELSE {})
  ELSE {}

\* The required dependency set of the chosen tier, as <<name, range>> pairs.
Required ==
  { <<HARDHAT_PACKAGE_NAME, "^" \o HardhatVersion>> } \cup
  { SAMPLE_PROJECT_DEPENDENCIES[action][i] :
      i \in DOMAIN SAMPLE_PROJECT_DEPENDENCIES[action] }

RequiredNames == { e[1] : e \in Required }

Missing == { e \in Required : e[1] \notin Declared }

FullySatisfied == Missing = {}

FrameworkOnlyInstalled ==
  /\ Missing # {}
  /\ (RequiredNames \cap Declared) \subseteq { HARDHAT_PACKAGE_NAME }

PartiallyCustomized ==
  /\ Missing # {}
  /\ (RequiredNames \cap Declared) \ { HARDHAT_PACKAGE_NAME } # {}

InstallerFailed ==
  \/ child.event = "error"
  \/ child.event = "close" /\ child.status # 0

\* The last n lines of the console.
LastLines(n) ==
  IF Len(console) < n THEN <<>>
  ELSE SubSeq(console, Len(console) - n + 1, Len(console))

\* C1: when the installer closes with a nonzero status or emits an error,
\* createProject does not throw: it prints the failure warning, the manual
\* instructions and the project-created message, and returns normally.
C1_InstallFailureIsNotFatal ==
  (pc = "done" /\ InstallerFailed) =>
    /\ outcome = "returned"
    /\ Len(console) >= 6
    /\ LastLines(6)[1] = MsgInstallFailed
    /\ LastLines(6)[3] = MsgNeedDeps
    /\ LastLines(6)[5] = MsgProjectCreated

\* C2: if the destination holds, when the run starts, an entry named like a
\* source entry of the requested tiers, the run fails with ConflictingFiles
\* and the destination's contents at the end are those at the start.
C2_ConflictLeavesDestinationUntouched ==
  ( /\ pc = "done"
    /\ TierAction
    /\ projectRoot \in DOMAIN fs0
    /\ duplicates(fs0, projectRoot, action) # {} )
  =>
    /\ outcome = "threw"
    /\ thrown = "ConflictingFiles"
    /\ fs[projectRoot] = fs0[projectRoot]

\* C3: after a successful advanced-typed composition, whatever the
\* destination root, the destination holds none of hardhat.config.js,
\* scripts/deploy.js, test/sample-test.js, holds their typed counterparts,
\* holds .npmignore with the advanced-typed tier's content and no npmignore.
C3_TypedCleanupInDestination ==
  (Composed /\ action = CREATE_ADVANCED_TYPESCRIPT_SAMPLE_PROJECT_ACTION) =>
    LET dest == fs[projectRoot]
    IN  /\ { <<"hardhat.config.js">>, <<"scripts", "deploy.js">>,
             <<"test", "sample-test.js">>, <<"npmignore">> } \cap DOMAIN dest = {}
        /\ { <<"hardhat.config.ts">>, <<"scripts", "deploy.ts">>,
             <<"test", "index.ts">>, <<".npmignore">> } \subseteq DOMAIN dest
        /\ dest[<<".npmignore">>] = "advancedTs"

\* C4: if the manifest declares every required package of the chosen tier,
\* then on every platform no install confirmation is asked, the installer
\* is not invoked and no manual instructions are printed.
C4_FullySatisfiedIsSilent ==
  (TierAction /\ FullySatisfied) =>
    /\ ~Prompted("recommendedDepsInstallation")
    /\ spawned = <<>>
    /\ ~Printed(MsgNeedDeps)

\* C5: when the destination root does not exist yet, the conflict check
\* raises no error and composition creates the directory and copies the
\* tiers into it.
C5_MissingRootIsEmpty ==
  ( /\ TierAction
    /\ projectRoot \in Roots \ DOMAIN fs0
    /\ pc # "checkForDuplicates" )
  =>
    /\ thrown \notin { "ENOENT", "ConflictingFiles" }
    /\ pc # "copyBasic" =>
         /\ projectRoot \in DOMAIN fs
         /\ <<"README.md">> \in DOMAIN fs[projectRoot]

\* C6: when a default-response variable is set no prompt of any kind is
\* shown; the root is the working directory, the ignore file is added and
\* the install is confirmed without asking.
C6_DefaultsShowNoPrompt ==
  (env # {}) =>
    /\ prompts = <<>>
    /\ projectRoot \in { "none", Cwd }
    /\ projectRoot = Cwd => shouldAddGitIgnore
    /\ pc \in { "install", "waitChild" } => shouldInstall

\* The tiers a tier-creating action includes, lowest first.
IncludedTiers ==
  CASE action = CREATE_ADVANCED_SAMPLE_PROJECT_ACTION -> << "basic", "advanced" >>
    [] action = CREATE_ADVANCED_TYPESCRIPT_SAMPLE_PROJECT_ACTION ->
         << "basic", "advanced", "advancedTs" >>
    [] OTHER -> << "basic" >>

\* The highest included tier that ships path p.
HighestTier(p) ==
  LET shipping == { i \in DOMAIN IncludedTiers : p \in SampleProjectFiles[IncludedTiers[i]] }
  IN  IncludedTiers[CHOOSE i \in shipping : \A j \in shipping : j <= i]

\* What post-copy cleanup removes or renames away, per the included tiers.
CleanedUp ==
  { <<"LICENSE.md">> } \cup
  (IF Len(IncludedTiers) >= 2
   THEN { <<"scripts", "sample-script.js">>, <<"npmignore">> } ELSE {}) \cup
  (IF Len(IncludedTiers) >= 3
   THEN { <<"hardhat.config.js">>, <<"scripts", "deploy.js">>,
          <<"test", "sample-test.js">> } ELSE {})

ShippedFiles == UNION { SampleProjectFiles[IncludedTiers[i]] : i \in DOMAIN IncludedTiers }

\* C7: after a successful composition into an empty destination the
\* destination's file set is the union of the included tiers' file sets
\* minus what cleanup removes or renames (npmignore becoming .npmignore),
\* and every file has the content of the highest included tier shipping it.
C7_MergedTiers ==
  ( /\ Composed
    /\ pc = "addGitIgnore" \/ ~shouldAddGitIgnore
    /\ projectRoot \in DOMAIN fsBeforeCopy
    /\ DOMAIN fsBeforeCopy[projectRoot] = {} )
  =>
    LET dest == fs[projectRoot]
        kept == ShippedFiles \ CleanedUp
    IN  /\ DOMAIN dest =
             kept \cup (IF <<"npmignore">> \in ShippedFiles THEN { <<".npmignore">> } ELSE {})
        /\ \A p \in kept : dest[p] = HighestTier(p)
        /\ <<"npmignore">> \in ShippedFiles =>
             dest[<<".npmignore">>] = HighestTier(<<"npmignore">>)

\* The required set as quoted "name@range" tokens, framework package first.
QuotedRequired ==
  << "\"" \o HARDHAT_PACKAGE_NAME \o "@^" \o HardhatVersion \o "\"" >> \o
  [ i \in DOMAIN SAMPLE_PROJECT_DEPENDENCIES[action] |->
      "\"" \o SAMPLE_PROJECT_DEPENDENCIES[action][i][1] \o "@" \o
      SAMPLE_PROJECT_DEPENDENCIES[action][i][2] \o "\"" ]

\* The line printed after MsgNeedDeps.
InstructionLine ==
  console[(CHOOSE i \in DOMAIN console : console[i] = MsgNeedDeps) + 1]

\* C8: if the manifest declares a non-framework required package and lacks
\* another required package, the installer is never invoked and no install
\* confirmation is asked, in either confirmation mode, and the instructions
\* printed list the full required set.
C8_PartiallyCustomizedNeverInstalls ==
  (TierAction /\ PartiallyCustomized) =>
    /\ spawned = <<>>
    /\ ~Prompted("recommendedDepsInstallation")
    /\ (pc = "done" /\ Composed) =>
         /\ outcome = "returned"
         /\ Printed(MsgNeedDeps)
         /\ InstructionLine \in
              { "  npm install --save-dev " \o Join(QuotedRequired, " "),
                "  yarn add --dev " \o Join(QuotedRequired, " ") }

\* a partially customized manifest, default-responses mode, on a platform
\* where installing is possible, run to its end
C8_Witness ==
  /\ pc = "done" /\ Composed /\ PartiallyCustomized
  /\ env # {} /\ osType # "Windows_NT"
  /\ HARDHAT_PACKAGE_NAME \notin Declared

\* The "name@range" tokens of the missing required packages, unquoted.
MissingTokens == { e[1] \o "@" \o e[2] : e \in Missing }

\* C9: on a non-excluded platform with a manifest, when the manifest declares
\* at most the framework package of the required set, something is missing
\* and the confirmation is affirmative, the installer is invoked exactly once
\* with one unquoted name@range token per missing required package and no
\* other package.
C9_InstallsExactlyTheMissing ==
  ( /\ TierAction
    /\ osType # "Windows_NT"
    /\ pathExists(fs, Cwd, PackageJsonPath)
    /\ FrameworkOnlyInstalled
    /\ shouldInstall
    /\ pc \in { "waitChild", "finish", "done" } )
  =>
    /\ Len(spawned) = 1
    /\ LET args == spawned[1].args
           packages == SubSeq(args, 3, Len(args))
       IN  /\ Len(packages) = Cardinality(MissingTokens)
           /\ { packages[i] : i \in DOMAIN packages } = MissingTokens

\* the framework package is declared, the rest is installed after an explicit
\* confirmation
C9_Witness ==
  /\ pc = "done" /\ TierAction /\ FrameworkOnlyInstalled /\ shouldInstall
  /\ HARDHAT_PACKAGE_NAME \in Declared
  /\ Prompted("recommendedDepsInstallation")
  /\ Len(spawned) = 1

\* C10: the install command, executed or printed, is yarn add --dev iff a
\* yarn.lock is present in the chosen destination root when the command is
\* built, and npm install --save-dev otherwise, also when the destination
\* root is not the working directory.
C10_PackageManagerFollowsDestination ==
  LET yarn == pathExists(fs, projectRoot, <<"yarn.lock">>)
  IN  /\ (TierAction /\ pc = "waitChild") =>
           /\ spawned[1].packageManager = (IF yarn THEN "yarn" ELSE "npm")
           /\ SubSeq(spawned[1].args, 1, 2) =
                (IF yarn THEN << "add", "--dev" >> ELSE << "install", "--save-dev" >>)
      /\ (TierAction /\ pc = "done" /\ Printed(MsgNeedDeps)) =>
           InstructionLine =
             (IF yarn THEN "  yarn add --dev " ELSE "  npm install --save-dev ")
               \o Join(QuotedRequired, " ")

\* What the action prompt answered or threw (it is the first prompt shown).
ActionPromptShown == prompts # <<>> /\ prompts[1] = "action"

\* C11: if the action prompt yields Quit or is cancelled with the empty
\* string, createProject returns normally with no filesystem call, no
\* template copy, no further prompt and no spawn; any other exception of the
\* prompt, and the UnsupportedOperation error for an unrecognized answer,
\* propagates unchanged out of createProject.
C11_QuitHasNoEffect ==
  ActionPromptShown =>
    LET r == responses[1]
    IN  /\ (r.value = QUIT_ACTION \/ (r.kind = "throw" /\ r.value = "")) =>
             /\ pc = "done" /\ outcome = "returned" /\ thrown = "none"
             /\ fs = fs0
             /\ fsOps = <<>>
             /\ prompts = << "action" >>
             /\ spawned = <<>>
        /\ (r.kind = "throw" /\ r.value # "") =>
             /\ pc = "done" /\ outcome = "threw" /\ thrown = r.value
             /\ fs = fs0
        /\ (r.kind = "answer" /\ r.value \notin Action) =>
             /\ pc = "done" /\ outcome = "threw" /\ thrown = "UnsupportedOperation"
             /\ fs = fs0

\* the prompt was cancelled in a directory without a package.json
C11_Witness ==
  /\ pc = "done"
  /\ ActionPromptShown
  /\ responses = << [ kind |-> "throw", value |-> "" ] >>
  /\ ~pathExists(fs0, Cwd, PackageJsonPath)

\* The filesystem calls of template composition.
CompositionOps == { "readdir", "ensureDir", "copy basic", "copy advanced",
                    "copy advanced-ts", "remove", "move" }

\* C12: for the empty-config action the run writes the minimal config file
\* and ends: no conflict check, no template copy, no classification of tier
\* dependencies, no install confirmation, no installer; an install
\* instruction naming the framework package alone is printed iff the
\* framework package is not declared in the manifest.
C12_EmptyConfigOnly ==
  (action = CREATE_EMPTY_HARDHAT_CONFIG_ACTION) =>
    /\ \A i \in DOMAIN fsOps : fsOps[i].op \notin CompositionOps
    /\ toInstall = <<>>
    /\ ~shouldInstall
    /\ prompts = << "action" >>
    /\ spawned = <<>>
    /\ pc = "done" =>
         /\ outcome = "returned"
         /\ fs[Cwd][<<"hardhat.config.js">>] = EmptyHardhatConfig
         /\ IF HARDHAT_PACKAGE_NAME \in Declared
            THEN console = << MsgConfigCreated >>
            ELSE /\ Len(console) = 6
                 /\ SubSeq(console, 1, 4) = << MsgConfigCreated, "", MsgNeedHardhat, "" >>
                 /\ console[5] \in
                      { "npm install --save-dev \"hardhat@^" \o HardhatVersion \o "\"",
                        "yarn add --dev \"hardhat@^" \o HardhatVersion \o "\"" }

\* the empty config was written next to a manifest that lacks the framework
C12_Witness ==
  /\ pc = "done"
  /\ action = CREATE_EMPTY_HARDHAT_CONFIG_ACTION
  /\ Declared = { "ethers" }
  /\ Printed(MsgNeedHardhat)

\* The <<name, range>> entries of a dependency table.
Entries(deps) == { deps[i] : i \in DOMAIN deps }

\* C13: for every tier-creating action getDependencies maps the framework
\* package to "^" + the running version; advanced's required set contains
\* basic's and advanced-typed's contains advanced's, shared packages having
\* the same range in each (every table maps a name to one range).
C13_RequiredSetsNest ==
  /\ \A a \in SampleProjectTypeCreationAction :
       /\ << HARDHAT_PACKAGE_NAME, "^" \o HardhatVersion >> \in Entries(getDependencies(a))
       /\ Cardinality(Names(getDependencies(a))) = Len(getDependencies(a))
  /\ Entries(getDependencies(CREATE_BASIC_SAMPLE_PROJECT_ACTION))
       \subseteq Entries(getDependencies(CREATE_ADVANCED_SAMPLE_PROJECT_ACTION))
  /\ Entries(getDependencies(CREATE_ADVANCED_SAMPLE_PROJECT_ACTION))
       \subseteq Entries(getDependencies(CREATE_ADVANCED_TYPESCRIPT_SAMPLE_PROJECT_ACTION))
  /\ (TierAction /\ pc = "waitChild" /\ HARDHAT_PACKAGE_NAME \notin Declared) =>
       << HARDHAT_PACKAGE_NAME, "^" \o HardhatVersion >> \in Entries(toInstall)

\* the whole advanced-typed required set is being installed
C13_Witness ==
  /\ pc = "waitChild"
  /\ action = CREATE_ADVANCED_TYPESCRIPT_SAMPLE_PROJECT_ACTION
  /\ Entries(toInstall) = Entries(getDependencies(action))
  /\ Len(toInstall) = 30

\* Composition has started by the i-th filesystem call: the conflict check's
\* listing of the destination is its first call.
CompositionStartedBefore(i) == \E j \in 1..(i - 1) : fsOps[j].op = "readdir"

ManifestCall(i) == fsOps[i].dir = Cwd /\ fsOps[i].path = PackageJsonPath

\* C14: in a run of a tier-creating action the manifest is accessed only
\* after template composition started (no read, existence check or write of
\* it before), reconciliation only reads it, and the installer comes after
\* the manifest read.
C14_ComposeThenReadThenInstall ==
  TierAction =>
    /\ \A i \in DOMAIN fsOps : ManifestCall(i) => CompositionStartedBefore(i)
    /\ \A i \in DOMAIN fsOps :
         (ManifestCall(i) /\ CompositionStartedBefore(i)) =>
           fsOps[i].op \in { "pathExists", "readJSON" }
    /\ spawned # <<>> =>
         \E i \in DOMAIN fsOps : ManifestCall(i) /\ fsOps[i].op = "readJSON"

\* The filesystem calls of copySampleProject that change the filesystem.
ChangingOps == CompositionOps \ { "readdir" }

\* The changing calls made so far, as <<op, path>> pairs in order.
ChangingCalls ==
  LET changing == SelectSeq(fsOps, LAMBDA o : o.op \in ChangingOps)
  IN  [ i \in DOMAIN changing |-> << changing[i].op, changing[i].path >> ]

\* The changing calls of a whole composition, in the order the claim gives:
\* basic copy, advanced copy and its cleanup, advanced-typed copy and its
\* cleanup, then the removal of cache, artifacts (when present) and LICENSE.md.
ExpectedCalls ==
  << << "ensureDir", <<>> >>, << "copy basic", <<>> >> >> \o
  (IF Len(IncludedTiers) >= 2
   THEN << << "copy advanced", <<>> >>,
           << "remove", <<"scripts", "sample-script.js">> >>,
           << "move", <<"npmignore">> >> >>
   ELSE <<>>) \o
  (IF Len(IncludedTiers) >= 3
   THEN << << "copy advanced-ts", <<>> >>,
           << "remove", <<"hardhat.config.js">> >>,
           << "remove", <<"scripts", "deploy.js">> >>,
           << "remove", <<"test", "sample-test.js">> >>,
           << "move", <<"npmignore">> >> >>
   ELSE <<>>) \o
  (IF pathExists(fsBeforeCopy, projectRoot, <<"cache">>)
   THEN << << "remove", <<"cache">> >> >> ELSE <<>>) \o
  (IF pathExists(fsBeforeCopy, projectRoot, <<"artifacts">>)
   THEN << << "remove", <<"artifacts">> >> >> ELSE <<>>) \o
  << << "remove", <<"LICENSE.md">> >> >>

\* C15: in copySampleProject the conflict check comes before any directory
\* creation, copy, removal or rename; when it fails none of them is made;
\* when it passes the tiers are copied in the order basic, advanced,
\* advanced-typed, each tier's cleanup after its copy, and the removal of
\* cache, artifacts and LICENSE.md last.
C15_CheckThenCopyInOrder ==
  (TierAction /\ projectRoot # "none") =>
    /\ \A i \in DOMAIN fsOps :
         fsOps[i].op \in ChangingOps => CompositionStartedBefore(i)
    /\ (pc = "done" /\ thrown \in { "ENOENT", "ConflictingFiles" }) =>
         /\ ChangingCalls = <<>>
         /\ fs = fsBeforeCopy
    /\ Len(ChangingCalls) <= Len(ExpectedCalls)
    /\ ChangingCalls = SubSeq(ExpectedCalls, 1, Len(ChangingCalls))
    /\ Composed => ChangingCalls = ExpectedCalls

\* an advanced-typed composition ran to its end in a destination that held
\* a cache directory
C15_Witness ==
  /\ Composed
  /\ action = CREATE_ADVANCED_TYPESCRIPT_SAMPLE_PROJECT_ACTION
  /\ pathExists(fsBeforeCopy, projectRoot, <<"cache">>)
  /\ Len(ChangingCalls) = 12


\* The destination's .gitignore in filesystem f: whether it exists, and its
\* content when it does.
GitIgnoreOf(f, root) ==
  IF pathExists(f, root, <<".gitignore">>)
  THEN [ present |-> TRUE, content |-> f[root][<<".gitignore">>] ]
  ELSE [ present |-> FALSE, content |-> "" ]

\* What addGitIgnore must leave behind, given the .gitignore it found.
AppendedGitIgnore(before) ==
  IF before.present
  THEN before.content \o "\n" \o RecommendedGitIgnore
  ELSE RecommendedGitIgnore

\* C16: addGitIgnore runs only when the ignore file was requested and
\* composition succeeded; the step it takes leaves in the destination's
\* .gitignore the content found just before it, then a newline, then the
\* recommended content (the recommended content alone when there was no
\* file); no other step of a run that has a destination changes the
\* destination's .gitignore, so that content is what the run ends with, and a
\* run that did not request the ignore file never writes it.
C16_GitIgnoreAppended ==
  [][ IF pc = "addGitIgnore"
      THEN /\ shouldAddGitIgnore
           /\ Composed
           /\ GitIgnoreOf(fs', projectRoot) =
                [ present |-> TRUE,
                  content |-> AppendedGitIgnore(GitIgnoreOf(fs, projectRoot)) ]
      ELSE (projectRoot # "none" /\ projectRoot' = projectRoot) =>
             GitIgnoreOf(fs', projectRoot) = GitIgnoreOf(fs, projectRoot)
    ]_vars

\* A finished run that appended to a .gitignore the destination already had.
C16_Witness ==
  /\ pc = "done"
  /\ outcome = "returned"
  /\ Composed
  /\ shouldAddGitIgnore
  /\ GitIgnoreOf(fsBeforeCopy, projectRoot).present
  /\ GitIgnoreOf(fs, projectRoot).content =
       GitIgnoreOf(fsBeforeCopy, projectRoot).content \o "\n" \o RecommendedGitIgnore


\* The filesystem calls that create, overwrite, rename or delete.
MutatingOps == { "ensureDir", "copy basic", "copy advanced", "copy advanced-ts",
                 "move", "remove", "writeFile", "writeJson" }

\* C17: in a run of a tier-creating action whose destination root is not the
\* working directory, every call that creates, overwrites, renames or deletes
\* is made under the destination root, and every directory other than the
\* destination holds exactly what it held when the run started.
C17_WritesOnlyUnderDestination ==
  (TierAction /\ projectRoot \in Roots \ { Cwd }) =>
    /\ \A i \in DOMAIN fsOps :
         fsOps[i].op \in MutatingOps => fsOps[i].dir = projectRoot
    /\ \A d \in Roots \ { projectRoot } :
         /\ (d \in DOMAIN fs) = (d \in DOMAIN fs0)
         /\ d \in DOMAIN fs => fs[d] = fs0[d]


\* The project-creation prompt was the last prompt shown and it was cancelled
\* with the empty-string sentinel.
ProjectCreationCancelled ==
  /\ prompts # <<>>
  /\ prompts[Len(prompts)] = "projectCreation"
  /\ Len(responses) = Len(prompts)
  /\ responses[Len(responses)] = [ kind |-> "throw", value |-> "" ]

\* C18: once the project-creation prompt has been cancelled with the
\* empty-string sentinel, createProject has returned without an error, the
\* filesystem is what it was when the run started, no filesystem call has
\* created, copied or written anything, and no installer has been spawned.
C18_CancelLeavesNoTrace ==
  ProjectCreationCancelled =>
    /\ pc = "done"
    /\ outcome = "returned"
    /\ thrown = "none"
    /\ fs = fs0
    /\ \A i \in DOMAIN fsOps : fsOps[i].op \notin MutatingOps
    /\ spawned = <<>>


\* The install confirmation was asked and answered negatively.
InstallDeclined ==
  /\ prompts # <<>>
  /\ prompts[Len(prompts)] = "recommendedDepsInstallation"
  /\ Len(responses) = Len(prompts)
  /\ responses[Len(responses)] = [ kind |-> "answer", value |-> "false" ]

\* C19: in interactive mode, with a manifest that declares none of the
\* required packages other than the framework and lacks at least one, once
\* the install confirmation has been answered negatively the installer is
\* never spawned, and the run returns after printing the manual instructions
\* for the full required set followed by the project-created message.
C19_DeclinedInstallPrintsInstructions ==
  (env = {} /\ TierAction /\ FrameworkOnlyInstalled /\ InstallDeclined) =>
    /\ spawned = <<>>
    /\ pc \in { "finish", "done" }
    /\ pc = "done" =>
         /\ outcome = "returned"
         /\ thrown = "none"
         /\ \E cmd \in { "npm install --save-dev", "yarn add --dev" } :
              LastLines(5) =
                << "", MsgNeedDeps, "  " \o cmd \o " " \o Join(QuotedRequired, " "),
                   MsgProjectCreated, MsgSeeReadme >>

\* a finished interactive run in which the manifest declared the framework
\* only and the install confirmation was declined
C19_Witness ==
  /\ pc = "done"
  /\ env = {}
  /\ TierAction
  /\ FrameworkOnlyInstalled
  /\ InstallDeclined
  /\ HARDHAT_PACKAGE_NAME \in Declared

====
